---- MODULE Spec2Model ----
(***************************************************************************)
(* Event-management backend: the event lifecycle (EventService/EventDAO)   *)
(* and the attendee registration and check-in rules (AttendeeService/      *)
(* AttendeeDAO) over the relational tables `events` and `attendees`.       *)
(* A row's primary key is its position in the table (autoincrement).       *)
(* Times are integers; `now` is datetime.now().  An absent Optional        *)
(* integer (None) is -1, an absent Optional status is "".                  *)
(***************************************************************************)
EXTENDS Integers, Sequences, FiniteSets, TLC

VARIABLES events, attendees, now, attendee_email_unique, last, requests, users, token

vars == <<events, attendees, now, attendee_email_unique, last, requests, users, token>>

(* ------------------------------ bounds --------------------------------- *)
MaxEvents == 2
MaxRows == 3
MaxTime == 1
MaxCap == 2
MaxEmail == 2
MaxUser == 2
MaxBulk == 2
MaxProc == 2

(* ------------------------- program constants --------------------------- *)
\* default page size of every DAO list query (skip = 0, limit = 100)
DefaultLimit == 100

SCHEDULED == "SCHEDULED"
ONGOING == "ONGOING"
COMPLETED == "COMPLETED"
CANCELLED == "CANCELED"
EventStatus == {SCHEDULED, ONGOING, COMPLETED, CANCELLED}

OK == 200
CREATED == 201
BAD_REQUEST == 400
FORBIDDEN == 403
NOT_FOUND == 404
INTERNAL_SERVER_ERROR == 500
\* status.HTTP_401_UNAUTHORIZED of the credentials exception
UNAUTHORIZED == 401

(* ------------------------------ helpers -------------------------------- *)
Min(a, b) == IF a <= b THEN a ELSE b

\* query.offset(skip).limit(limit).all() over the rows ids (in key order)
Page(ids, skip, limit) == SubSeq(ids, skip + 1, Min(Len(ids), skip + limit))

Indices(rows) == [i \in 1..Len(rows) |-> i]

SeqToSet(s) == {s[i] : i \in DOMAIN s}

\* AppResponse / HTTPException of the last request, with what it was about
\* (data: the ids of the records returned; writes: the ids of the events whose
\* status the request wrote through EventDAO.update_status)
Response(op, code, msg, event_id, arg, data, errors, writes) ==
    [op |-> op, code |-> code, msg |-> msg, event_id |-> event_id, arg |-> arg,
     data |-> data, errors |-> errors, writes |-> writes]

(* ------------------------------- DAOs ---------------------------------- *)
\* BaseDAO.get: the row with this primary key, 0 for None
get(rows, id) == IF id \in DOMAIN rows THEN id ELSE 0

\* EventDAO.get_by_id / AttendeeDAO.get_by_id
get_by_id(rows, id) == IF id \in DOMAIN rows THEN id ELSE 0

\* BaseDAO.get_all
get_all(skip, limit) == Page(Indices(events), skip, limit)

\* EventDAO.get_by_status
get_by_status(status, skip, limit) ==
    Page(SelectSeq(Indices(events), LAMBDA i : events[i].status = status), skip, limit)

\* EventDAO.get_by_date_range
get_by_date_range(start_date, end_date, skip, limit) ==
    Page(SelectSeq(Indices(events),
                   LAMBDA i : events[i].start_time >= start_date
                              /\ events[i].end_time <= end_date), skip, limit)

\* Event.updated_at (onupdate): a flush that changes a column of the row stamps
\* the row with the current time; a flush that changes nothing emits no UPDATE
touch(old, new) ==
    IF new = old THEN old ELSE [new EXCEPT !.updated_at = now]

\* EventDAO.update_status: the table after the write
update_status(evs, event_id, status) ==
    IF get_by_id(evs, event_id) = 0 THEN evs
    ELSE [evs EXCEPT ![event_id] = touch(@, [@ EXCEPT !.status = status])]

\* AttendeeDAO.get_by_event with its default page (skip 0, limit 100)
get_by_event(rows, event_id) ==
    Page(SelectSeq(Indices(rows), LAMBDA i : rows[i].event_id = event_id),
         0, DefaultLimit)

\* AttendeeDAO.get_by_email: .first() of a query without ORDER BY is any of the
\* matching rows; the set of rows it can return ({0}: None)
get_by_email(rows, email) ==
    LET hit == {i \in DOMAIN rows : rows[i].email = email}
    IN  IF hit = {} THEN {0} ELSE hit

\* variant: the filter is on the event of the attendee, not on its id
check_in_attendee_dao_by_event(rows, attendee_id) ==
    IF get_by_id(rows, attendee_id) = 0 THEN rows
    ELSE [i \in DOMAIN rows |->
            IF rows[i].event_id = rows[attendee_id].event_id
            THEN [rows[i] EXCEPT !.check_in_status = TRUE] ELSE rows[i]]

\* AttendeeDAO.check_in_attendee: the table after the write
check_in_attendee_dao(rows, attendee_id) ==
    IF get_by_id(rows, attendee_id) = 0 THEN rows
    ELSE [rows EXCEPT ![attendee_id].check_in_status = TRUE]

\* the attendees table of migration 7c7fda67b72b declares UNIQUE(email); the ORM
\* model (Base.metadata.create_all) declares no unique constraint
IntegrityError(rows, email) ==
    attendee_email_unique /\ \E i \in DOMAIN rows : rows[i].email = email

\* AttendeeDAO.create: the table after the insert
attendee_create(rows, email, event_id) ==
    Append(rows, [event_id |-> event_id, email |-> email, check_in_status |-> FALSE])

(* ----------------------------- EventService ---------------------------- *)
\* variant: every status but the terminal ones may move to any status
is_valid_status_transition_from_open(current_status, new_status) ==
    current_status \notin {COMPLETED, CANCELLED}

\* EventService._is_valid_status_transition
is_valid_status_transition(current_status, new_status) ==
    LET valid_transitions ==
            [s \in EventStatus |->
                CASE s = SCHEDULED -> {ONGOING, CANCELLED}
                  [] s = ONGOING   -> {COMPLETED, CANCELLED}
                  [] s = COMPLETED -> {}
                  [] s = CANCELLED -> {}]
    IN  new_status \in valid_transitions[current_status]

\* variant: the end time alone decides, whatever the status
is_past(evs, event_id) == evs[event_id].end_time < now

\* variant: only COMPLETED is excluded
is_past_and_not_completed(evs, event_id) ==
    /\ evs[event_id].status # COMPLETED
    /\ evs[event_id].end_time < now

\* the condition of EventService._update_event_status_based_on_time
is_past_and_open(evs, event_id) ==
    /\ evs[event_id].status \notin {COMPLETED, CANCELLED}
    /\ evs[event_id].end_time < now

\* EventService._update_event_status_based_on_time: the table after the call
update_event_status_based_on_time(evs, event_id) ==
    IF is_past_and_open(evs, event_id)
    THEN update_status(evs, event_id, COMPLETED)
    ELSE evs


\* variant: the new row takes ONGOING as the default of its status column
create_event_as_ongoing(start_time, end_time, max_attendees, organizer_id) ==
    /\ events' = Append(events, [start_time |-> start_time, end_time |-> end_time,
                                 max_attendees |-> max_attendees, status |-> ONGOING,
                                 organizer_id |-> organizer_id, updated_at |-> now])
    /\ last' = Response("create_event", CREATED, "Event created successfully",
                        Len(events) + 1, organizer_id, <<Len(events) + 1>>, <<>>, <<>>)
    /\ UNCHANGED <<attendees, now, attendee_email_unique, requests, users, token>>

\* EventService.create_event (the DTO carries no status: the column default applies)
create_event(start_time, end_time, max_attendees, organizer_id) ==
    /\ events' = Append(events, [start_time |-> start_time, end_time |-> end_time,
                                 max_attendees |-> max_attendees, status |-> SCHEDULED,
                                 organizer_id |-> organizer_id, updated_at |-> now])
    /\ last' = Response("create_event", CREATED, "Event created successfully",
                        Len(events) + 1, organizer_id, <<Len(events) + 1>>, <<>>, <<>>)
    /\ UNCHANGED <<attendees, now, attendee_email_unique, requests, users, token>>

\* EventDAO.update: setattr of every field the request sets (exclude_unset)
event_update(evs, event_id, event_in) ==
    [evs EXCEPT ![event_id] = touch(@,
        [start_time    |-> IF event_in.start_time = -1 THEN @.start_time
                           ELSE event_in.start_time,
         end_time      |-> IF event_in.end_time = -1 THEN @.end_time
                           ELSE event_in.end_time,
         max_attendees |-> IF event_in.max_attendees = -1 THEN @.max_attendees
                           ELSE event_in.max_attendees,
         status        |-> IF event_in.status = "" THEN @.status ELSE event_in.status,
         organizer_id  |-> @.organizer_id,
         updated_at    |-> @.updated_at])]

\* the outcome of EventService.update_event before its write: "" when it goes on
update_event_error(event_id, event_in, organizer_id) ==
    IF get_by_id(events, event_id) = 0 THEN "Event not found"
    ELSE IF events[event_id].organizer_id # organizer_id
         THEN "Not authorized to update this event"
    ELSE IF event_in.start_time # -1 /\ event_in.end_time # -1
            /\ event_in.start_time >= event_in.end_time
         THEN "End time must be after start time"
    ELSE ""

\* EventService.update_event
update_event(event_id, event_in, organizer_id) ==
    LET err == update_event_error(event_id, event_in, organizer_id)
        code == CASE err = "Event not found" -> NOT_FOUND
                  [] err = "Not authorized to update this event" -> FORBIDDEN
                  [] err = "End time must be after start time" -> BAD_REQUEST
                  [] OTHER -> OK
    IN  /\ IF err = ""
           THEN /\ events' = event_update(events, event_id, event_in)
                /\ last' = Response("update_event", OK, "Event updated successfully",
                                    event_id, organizer_id, <<event_id>>, <<>>, <<>>)
           ELSE /\ events' = events
                /\ last' = Response("update_event", code, err, event_id, organizer_id,
                                    <<>>, <<>>, <<>>)
        /\ UNCHANGED <<attendees, now, attendee_email_unique, requests, users, token>>

\* variant: the response is built from a copy of the row taken before the write
model_validate_before(loaded, stored, event_id) == loaded[event_id].status

\* the status EventResponse.model_validate(event) serializes: `event` is the
\* session's one object for the row, which EventDAO.update_status writes and
\* refreshes (loaded: the table when the row was fetched; stored: after the call)
model_validate(loaded, stored, event_id) == stored[event_id].status

\* EventService.get_event
get_event(event_id) ==
    /\ IF get(events, event_id) = 0
       THEN /\ events' = events
            /\ last' = Response("get_event", NOT_FOUND, "Event not found", event_id, 0,
                                <<>>, <<>>, <<>>)
       ELSE /\ events' = update_event_status_based_on_time(events, event_id)
            /\ last' = Response("get_event", OK, "Event retrieved successfully",
                                event_id, 0, <<event_id>>, <<>>,
                                IF is_past_and_open(events, event_id)
                                THEN <<event_id>> ELSE <<>>)
                        @@ [statuses |-> <<model_validate(events, events', event_id)>>]
    /\ UNCHANGED <<attendees, now, attendee_email_unique, requests, users, token>>

\* the loop of EventService.get_events over the page it fetched
RECURSIVE update_each(_, _, _)
update_each(evs, ids, i) ==
    IF i > Len(ids) THEN evs
    ELSE update_each(update_event_status_based_on_time(evs, ids[i]), ids, i + 1)

\* the events of the page that loop writes
written_by_update_each(ids) == SelectSeq(ids, LAMBDA id : is_past_and_open(events, id))

\* the query EventService.get_events chooses
get_events_query(skip, limit, status, start_date, end_date) ==
    IF status # "" THEN get_by_status(status, skip, limit)
    ELSE IF start_date # -1 /\ end_date # -1
         THEN get_by_date_range(start_date, end_date, skip, limit)
    ELSE get_all(skip, limit)

\* EventService.get_events
get_events(skip, limit, status, start_date, end_date) ==
    LET ids == get_events_query(skip, limit, status, start_date, end_date)
    IN  /\ events' = update_each(events, ids, 1)
        /\ last' = Response("get_events", OK, "Events retrieved successfully", 0, 0,
                            ids, <<>>, written_by_update_each(ids))
                    @@ [statuses |-> [k \in DOMAIN ids |->
                                        model_validate(events, events', ids[k])]]
        /\ UNCHANGED <<attendees, now, attendee_email_unique, requests, users, token>>

\* variant: no ownership check
update_event_status_error_any_user(event_id, new_status, user_id) ==
    IF get(events, event_id) = 0 THEN "Event not found"
    ELSE IF ~is_valid_status_transition(events[event_id].status, new_status)
         THEN "Invalid status transition"
    ELSE ""

\* the outcome of EventService.update_event_status before its write: "" when it goes on
update_event_status_error(event_id, new_status, user_id) ==
    IF get(events, event_id) = 0 THEN "Event not found"
    ELSE IF events[event_id].organizer_id # user_id
         THEN "You are not authorized to update this event"
    ELSE IF ~is_valid_status_transition(events[event_id].status, new_status)
         THEN "Invalid status transition"
    ELSE ""

\* EventService.update_event_status
update_event_status(event_id, new_status, user_id) ==
    LET err == update_event_status_error(event_id, new_status, user_id)
        code == CASE err = "Event not found" -> NOT_FOUND
                  [] err = "You are not authorized to update this event" -> FORBIDDEN
                  [] err = "Invalid status transition" -> BAD_REQUEST
                  [] OTHER -> OK
    IN  /\ IF err = ""
           THEN /\ events' = update_status(events, event_id, new_status)
                /\ last' = Response("update_event_status", OK,
                                    "Event status updated successfully", event_id,
                                    user_id, <<event_id>>, <<>>, <<event_id>>)
           ELSE /\ events' = events
                /\ last' = Response("update_event_status", code, err, event_id, user_id,
                                    <<>>, <<>>, <<>>)
        /\ UNCHANGED <<attendees, now, attendee_email_unique, requests, users, token>>

(* ---------------------------- AttendeeService --------------------------- *)
\* `existing_attendee and existing_attendee.event_id == attendee_in.event_id`
already_registered(existing_attendee, event_id) ==
    existing_attendee # 0 /\ attendees[existing_attendee].event_id = event_id

\* `len(current_attendees) >= event.max_attendees`
reached_max_attendees(event_id) ==
    Len(get_by_event(attendees, event_id)) >= events[event_id].max_attendees

\* the outcome of AttendeeService.register_attendee before its insert, for the rows
\* its two get_by_email queries returned: "" when it goes on to the insert
register_attendee_error(email, event_id, first1, first2) ==
    IF get(events, event_id) = 0 THEN "Event not found"
    ELSE IF already_registered(first1, event_id)
         THEN "Attendee already registered for this event"
    ELSE IF events[event_id].status \in {COMPLETED, CANCELLED}
         THEN "Event is not open for registration"
    ELSE IF already_registered(first2, event_id)
         THEN "Attendee already registered for this event"
    ELSE IF reached_max_attendees(event_id)
         THEN "Event has reached maximum attendees"
    ELSE ""

\* AttendeeService.register_attendee; the insert's IntegrityError is not caught
register_attendee(email, event_id) ==
    \E first1 \in get_by_email(attendees, email),
       first2 \in get_by_email(attendees, email) :
        LET err == register_attendee_error(email, event_id, first1, first2)
        IN  /\ IF err = "Event not found"
               THEN /\ attendees' = attendees
                    /\ last' = Response("register_attendee", NOT_FOUND, err, event_id,
                                        email, <<>>, <<>>, <<>>)
               ELSE IF err # ""
               THEN /\ attendees' = attendees
                    /\ last' = Response("register_attendee", BAD_REQUEST, err, event_id,
                                        email, <<>>, <<>>, <<>>)
               ELSE IF IntegrityError(attendees, email)
               THEN /\ attendees' = attendees
                    /\ last' = Response("register_attendee", INTERNAL_SERVER_ERROR,
                                        "IntegrityError", event_id, email, <<>>, <<>>, <<>>)
               ELSE /\ attendees' = attendee_create(attendees, email, event_id)
                    /\ last' = Response("register_attendee", CREATED,
                                        "Attendee registered successfully", event_id,
                                        email, <<Len(attendees) + 1>>, <<>>, <<>>)
            /\ UNCHANGED <<events, now, attendee_email_unique, requests, users, token>>

\* variant: the event's status is not looked at
check_in_attendee_error_any_status(attendee_id) ==
    IF get(attendees, attendee_id) = 0 THEN "Attendee not found"
    ELSE IF get(events, attendees[attendee_id].event_id) = 0 THEN "Event not found"
    ELSE IF attendees[attendee_id].check_in_status THEN "Attendee already checked in"
    ELSE ""

\* the HTTPException AttendeeService.check_in_attendee raises: "" when it goes on
check_in_attendee_error(attendee_id) ==
    IF get(attendees, attendee_id) = 0 THEN "Attendee not found"
    ELSE IF get(events, attendees[attendee_id].event_id) = 0 THEN "Event not found"
    ELSE IF events[attendees[attendee_id].event_id].status # ONGOING
         THEN "Event is not ongoing"
    ELSE IF attendees[attendee_id].check_in_status THEN "Attendee already checked in"
    ELSE ""

\* AttendeeService.check_in_attendee
check_in_attendee(attendee_id) ==
    LET err == check_in_attendee_error(attendee_id)
        event_id == IF get(attendees, attendee_id) = 0 THEN 0
                    ELSE attendees[attendee_id].event_id
        code == IF err \in {"Attendee not found", "Event not found"}
                THEN NOT_FOUND ELSE BAD_REQUEST
    IN  /\ IF err = ""
           THEN /\ attendees' = check_in_attendee_dao(attendees, attendee_id)
                /\ last' = Response("check_in_attendee", OK,
                                    "Attendee checked in successfully", event_id,
                                    attendee_id, <<attendee_id>>, <<>>, <<>>)
           ELSE /\ attendees' = attendees
                /\ last' = Response("check_in_attendee", code, err, event_id,
                                    attendee_id, <<>>, <<>>, <<>>)
        /\ UNCHANGED <<events, now, attendee_email_unique, requests, users, token>>

\* email_to_attendee.get(email): the dict comprehension keeps the last row of the
\* page that carries the email (0: None)
email_to_attendee(page, email) ==
    LET hit == {i \in DOMAIN page : attendees[page[i]].email = email}
    IN  IF hit = {} THEN 0 ELSE page[CHOOSE i \in hit : \A j \in hit : j <= i]

\* the loop of AttendeeService.bulk_check_in_attendees from its i-th email on
RECURSIVE bulk_loop(_, _, _, _)
bulk_loop(page, emails, i, acc) ==
    IF i > Len(emails) THEN acc
    ELSE LET email == emails[i]
             attendee == email_to_attendee(page, email)
         IN  IF attendee = 0
             THEN bulk_loop(page, emails, i + 1,
                      [acc EXCEPT !.errors =
                          Append(@, [email |-> email, error |-> "not found"])])
             ELSE IF acc.rows[attendee].check_in_status
             THEN bulk_loop(page, emails, i + 1,
                      [acc EXCEPT !.errors =
                          Append(@, [email |-> email, error |-> "already checked in"])])
             ELSE bulk_loop(page, emails, i + 1,
                      [acc EXCEPT !.rows = check_in_attendee_dao(@, attendee),
                                  !.checked_in_attendees = Append(@, attendee)])

\* what AttendeeService.bulk_check_in_attendees writes and returns
bulk_check_in_attendees_result(event_id, emails) ==
    IF get(events, event_id) = 0
    THEN [rows |-> attendees,
          response |-> Response("bulk_check_in_attendees", NOT_FOUND, "Event not found",
                                event_id, 0, <<>>, <<>>, <<>>)]
    ELSE IF events[event_id].status # ONGOING
    THEN [rows |-> attendees,
          response |-> Response("bulk_check_in_attendees", BAD_REQUEST,
                                "Event is not ongoing", event_id, 0, <<>>, <<>>, <<>>)]
    ELSE LET done == bulk_loop(get_by_event(attendees, event_id), emails, 1,
                               [rows |-> attendees, checked_in_attendees |-> <<>>,
                                errors |-> <<>>])
         IN  [rows |-> done.rows,
              response |-> Response("bulk_check_in_attendees", OK,
                                    "Bulk check-in completed", event_id, Len(emails),
                                    done.checked_in_attendees, done.errors, <<>>)]

\* AttendeeService.bulk_check_in_attendees
bulk_check_in_attendees(event_id, emails) ==
    /\ attendees' = bulk_check_in_attendees_result(event_id, emails).rows
    /\ last' = bulk_check_in_attendees_result(event_id, emails).response
    /\ UNCHANGED <<events, now, attendee_email_unique, requests, users, token>>

\* the body of the try block of the bulk check-in endpoint: the HTTPException it
\* raises, or the service response it returns
bulk_check_in_try(event_id, emails) ==
    LET response == bulk_check_in_attendees_result(event_id, emails).response
    IN  IF emails = <<>>
        THEN [raised |-> TRUE, code |-> BAD_REQUEST,
              msg |-> "No valid emails found in CSV", rows |-> attendees]
        ELSE IF response.code # OK
        THEN [raised |-> TRUE, code |-> response.code, msg |-> response.msg,
              rows |-> bulk_check_in_attendees_result(event_id, emails).rows]
        ELSE [raised |-> FALSE, code |-> response.code, msg |-> response.msg,
              rows |-> bulk_check_in_attendees_result(event_id, emails).rows]

\* POST /attendees/bulk-check-in: `except Exception` around the try block catches
\* the HTTPExceptions raised inside it as well
endpoint_bulk_check_in_attendees(event_id, csv, emails) ==
    LET tried == bulk_check_in_try(event_id, emails)
        response == bulk_check_in_attendees_result(event_id, emails).response
    IN  /\ IF ~csv
           THEN /\ attendees' = attendees
                /\ last' = Response("bulk_check_in", BAD_REQUEST,
                                    "Only CSV files are allowed", event_id,
                                    Len(emails), <<>>, <<>>, <<>>)
           ELSE IF tried.raised
           THEN /\ attendees' = tried.rows
                /\ last' = Response("bulk_check_in", INTERNAL_SERVER_ERROR,
                                    "Error processing CSV file", event_id,
                                    Len(emails), <<>>, <<>>, <<>>)
           ELSE /\ attendees' = tried.rows
                /\ last' = Response("bulk_check_in", tried.code, tried.msg, event_id,
                                    Len(emails), response.data, response.errors, <<>>)
        /\ UNCHANGED <<events, now, attendee_email_unique, requests, users, token>>

\* AttendeeDAO.get_attendees: each filter applies when its argument is not None
\* (-1; check_in_status: 1 for True, 0 for False)
get_attendees_dao(rows, event_id, email, check_in_status, skip, limit) ==
    Page(SelectSeq(Indices(rows),
                   LAMBDA i : /\ event_id # -1 => rows[i].event_id = event_id
                              /\ email # -1 => rows[i].email = email
                              /\ check_in_status # -1
                                 => rows[i].check_in_status = (check_in_status = 1)),
         skip, limit)

\* AttendeeDAO.get_checked_in_attendees
get_checked_in_attendees_dao(rows, event_id, skip, limit) ==
    Page(SelectSeq(Indices(rows),
                   LAMBDA i : rows[i].event_id = event_id /\ rows[i].check_in_status),
         skip, limit)

\* what AttendeeService.get_attendees returns (`if event_id:` is false for None and 0)
get_attendees_result(event_id, email, check_in_status, skip, limit) ==
    IF event_id # -1 /\ event_id # 0 /\ get_by_id(events, event_id) = 0
    THEN [code |-> NOT_FOUND, msg |-> "Event not found", data |-> <<>>]
    ELSE [code |-> OK, msg |-> "Attendees retrieved successfully",
          data |-> get_attendees_dao(attendees, event_id, email, check_in_status,
                                     skip, limit)]

\* what GET /attendees/event/{event_id}/checked-in returns around
\* AttendeeService.get_checked_in_attendees
get_checked_in_attendees_result(event_id, skip, limit) ==
    [code |-> OK, msg |-> "Checked-in attendees retrieved successfully",
     data |-> get_checked_in_attendees_dao(attendees, event_id, skip, limit)]

\* AttendeeService.get_attendees
get_attendees(event_id, email, check_in_status, skip, limit) ==
    LET result == get_attendees_result(event_id, email, check_in_status, skip, limit)
    IN  /\ last' = Response("get_attendees", result.code, result.msg, event_id, email,
                            result.data, <<>>, <<>>)
        /\ UNCHANGED <<events, attendees, now, attendee_email_unique, requests, users, token>>

\* AttendeeService.get_checked_in_attendees behind its endpoint
get_checked_in_attendees(event_id, skip, limit) ==
    LET result == get_checked_in_attendees_result(event_id, skip, limit)
    IN  /\ last' = Response("get_checked_in_attendees", result.code, result.msg,
                            event_id, 0, result.data, <<>>, <<>>)
        /\ UNCHANGED <<events, attendees, now, attendee_email_unique, requests, users, token>>

(* ------------------------ requests in progress ------------------------- *)
\* Requests served by different workers run the same service code against the
\* shared database; a request's queries and its commit are separate steps, each
\* seeing what is committed when it runs.  requests[p] holds what request p has
\* loaded into its session so far (event_*: the Event it fetched; check_in_status:
\* of the Attendee it fetched) and, at pc = "done", its response.
Procs == 1..MaxProc

Idle ==
    [pc |-> "idle", op |-> "", email |-> 0, event_id |-> 0, attendee_id |-> 0,
     event_status |-> "", event_max_attendees |-> 0, check_in_status |-> FALSE,
     new_status |-> "", user_id |-> 0, code |-> 0, msg |-> ""]

\* request p returns (an AppResponse or an HTTPException)
Done(p, code, msg) ==
    requests' = [requests EXCEPT ![p].pc = "done", ![p].code = code, ![p].msg = msg]

Goto(p, pc) == requests' = [requests EXCEPT ![p].pc = pc]

\* POST /attendees arrives
register_begin(p, email, event_id) ==
    /\ requests[p].pc = "idle"
    /\ requests' = [requests EXCEPT ![p] =
          [Idle EXCEPT !.pc = "get_event", !.op = "register_attendee",
                       !.email = email, !.event_id = event_id]]
    /\ UNCHANGED <<events, attendees, now, attendee_email_unique, last, users, token>>

\* AttendeeService.register_attendee: `event = self.event_dao.get(...)`
register_get_event(p) ==
    /\ requests[p].op = "register_attendee" /\ requests[p].pc = "get_event"
    /\ IF get(events, requests[p].event_id) = 0
       THEN Done(p, NOT_FOUND, "Event not found")
       ELSE requests' = [requests EXCEPT
                ![p].pc = "get_by_email_1",
                ![p].event_status = events[requests[p].event_id].status,
                ![p].event_max_attendees = events[requests[p].event_id].max_attendees]
    /\ UNCHANGED <<events, attendees, now, attendee_email_unique, last, users, token>>

\* the first get_by_email, its duplicate check and the check of event.status
register_get_by_email_1(p) ==
    /\ requests[p].op = "register_attendee" /\ requests[p].pc = "get_by_email_1"
    /\ \E first \in get_by_email(attendees, requests[p].email) :
          IF already_registered(first, requests[p].event_id)
          THEN Done(p, BAD_REQUEST, "Attendee already registered for this event")
          ELSE IF requests[p].event_status \in {COMPLETED, CANCELLED}
          THEN Done(p, BAD_REQUEST, "Event is not open for registration")
          ELSE Goto(p, "get_by_email_2")
    /\ UNCHANGED <<events, attendees, now, attendee_email_unique, last, users, token>>

\* the second get_by_email and its duplicate check
register_get_by_email_2(p) ==
    /\ requests[p].op = "register_attendee" /\ requests[p].pc = "get_by_email_2"
    /\ \E first \in get_by_email(attendees, requests[p].email) :
          IF already_registered(first, requests[p].event_id)
          THEN Done(p, BAD_REQUEST, "Attendee already registered for this event")
          ELSE Goto(p, "get_by_event")
    /\ UNCHANGED <<events, attendees, now, attendee_email_unique, last, users, token>>

\* `current_attendees = self.attendee_dao.get_by_event(...)` and the capacity check
register_get_by_event(p) ==
    /\ requests[p].op = "register_attendee" /\ requests[p].pc = "get_by_event"
    /\ IF Len(get_by_event(attendees, requests[p].event_id))
             >= requests[p].event_max_attendees
       THEN Done(p, BAD_REQUEST, "Event has reached maximum attendees")
       ELSE Goto(p, "create")
    /\ UNCHANGED <<events, attendees, now, attendee_email_unique, last, users, token>>

\* `self.attendee_dao.create(...)`: the insert and its commit
register_create(p) ==
    /\ requests[p].op = "register_attendee" /\ requests[p].pc = "create"
    /\ IF IntegrityError(attendees, requests[p].email)
       THEN /\ attendees' = attendees
            /\ Done(p, INTERNAL_SERVER_ERROR, "IntegrityError")
       ELSE /\ attendees' = attendee_create(attendees, requests[p].email,
                                            requests[p].event_id)
            /\ requests' = [requests EXCEPT
                    ![p].pc = "done", ![p].code = CREATED,
                    ![p].msg = "Attendee registered successfully",
                    ![p].attendee_id = Len(attendees) + 1]
    /\ UNCHANGED <<events, now, attendee_email_unique, last, users, token>>

\* POST /attendees/{attendee_id}/check-in arrives
check_in_begin(p, attendee_id) ==
    /\ requests[p].pc = "idle"
    /\ requests' = [requests EXCEPT ![p] =
          [Idle EXCEPT !.pc = "get_attendee", !.op = "check_in_attendee",
                       !.attendee_id = attendee_id]]
    /\ UNCHANGED <<events, attendees, now, attendee_email_unique, last, users, token>>

\* AttendeeService.check_in_attendee: `attendee = self.attendee_dao.get(...)`
check_in_get_attendee(p) ==
    /\ requests[p].op = "check_in_attendee" /\ requests[p].pc = "get_attendee"
    /\ IF get(attendees, requests[p].attendee_id) = 0
       THEN Done(p, NOT_FOUND, "Attendee not found")
       ELSE requests' = [requests EXCEPT
                ![p].pc = "get_event",
                ![p].event_id = attendees[requests[p].attendee_id].event_id,
                ![p].check_in_status = attendees[requests[p].attendee_id].check_in_status]
    /\ UNCHANGED <<events, attendees, now, attendee_email_unique, last, users, token>>

\* `event = self.event_dao.get(...)` and the checks of event.status and of the
\* check_in_status of the attendee object loaded before
check_in_get_event(p) ==
    /\ requests[p].op = "check_in_attendee" /\ requests[p].pc = "get_event"
    /\ IF get(events, requests[p].event_id) = 0
       THEN Done(p, NOT_FOUND, "Event not found")
       ELSE IF events[requests[p].event_id].status # ONGOING
       THEN Done(p, BAD_REQUEST, "Event is not ongoing")
       ELSE IF requests[p].check_in_status
       THEN Done(p, BAD_REQUEST, "Attendee already checked in")
       ELSE Goto(p, "check_in_attendee")
    /\ UNCHANGED <<events, attendees, now, attendee_email_unique, last, users, token>>

\* `self.attendee_dao.check_in_attendee(...)`: the update and its commit
check_in_write(p) ==
    /\ requests[p].op = "check_in_attendee" /\ requests[p].pc = "check_in_attendee"
    /\ attendees' = check_in_attendee_dao(attendees, requests[p].attendee_id)
    /\ Done(p, OK, "Attendee checked in successfully")
    /\ UNCHANGED <<events, now, attendee_email_unique, last, users, token>>

\* PUT /events/{event_id}/status arrives
update_event_status_begin(p, event_id, new_status, user_id) ==
    /\ requests[p].pc = "idle"
    /\ requests' = [requests EXCEPT ![p] =
          [Idle EXCEPT !.pc = "get_event", !.op = "update_event_status",
                       !.event_id = event_id, !.new_status = new_status,
                       !.user_id = user_id]]
    /\ UNCHANGED <<events, attendees, now, attendee_email_unique, last, users, token>>

\* EventService.update_event_status: `event = self.event_dao.get(...)` and the
\* checks of ownership and of the transition on the object just loaded
update_event_status_get_event(p) ==
    /\ requests[p].op = "update_event_status" /\ requests[p].pc = "get_event"
    /\ IF get(events, requests[p].event_id) = 0
       THEN Done(p, NOT_FOUND, "Event not found")
       ELSE IF events[requests[p].event_id].organizer_id # requests[p].user_id
       THEN Done(p, FORBIDDEN, "You are not authorized to update this event")
       ELSE IF ~is_valid_status_transition(events[requests[p].event_id].status,
                                           requests[p].new_status)
       THEN Done(p, BAD_REQUEST, "Invalid status transition")
       ELSE requests' = [requests EXCEPT
                ![p].pc = "update_status",
                ![p].event_status = events[requests[p].event_id].status]
    /\ UNCHANGED <<events, attendees, now, attendee_email_unique, last, users, token>>

\* GET /events/{event_id} arrives
get_event_begin(p, event_id) ==
    /\ requests[p].pc = "idle"
    /\ requests' = [requests EXCEPT ![p] =
          [Idle EXCEPT !.pc = "get_event", !.op = "get_event", !.event_id = event_id]]
    /\ UNCHANGED <<events, attendees, now, attendee_email_unique, last, users, token>>

\* EventService.get_event: `event = self.event_dao.get(...)` and the condition of
\* _update_event_status_based_on_time on the object just loaded
get_event_get_event(p) ==
    /\ requests[p].op = "get_event" /\ requests[p].pc = "get_event"
    /\ IF get(events, requests[p].event_id) = 0
       THEN Done(p, NOT_FOUND, "Event not found")
       ELSE IF is_past_and_open(events, requests[p].event_id)
       THEN requests' = [requests EXCEPT
                ![p].pc = "update_status",
                ![p].event_status = events[requests[p].event_id].status,
                ![p].new_status = COMPLETED]
       ELSE Done(p, OK, "Event retrieved successfully")
    /\ UNCHANGED <<events, attendees, now, attendee_email_unique, last, users, token>>

\* EventDAO.update_status on the session of a request in progress: its get_by_id
\* yields the object the session loaded, status is set, and the commit writes the
\* row whatever status another session has stored meanwhile
update_status_commit(evs, event_id, status) ==
    [evs EXCEPT ![event_id].status = status, ![event_id].updated_at = now]

\* `self.event_dao.update_status(...)` of update_event_status or of get_event
update_status_write(p) ==
    /\ requests[p].op \in {"update_event_status", "get_event"}
    /\ requests[p].pc = "update_status"
    /\ events' = update_status_commit(events, requests[p].event_id, requests[p].new_status)
    /\ IF requests[p].op = "get_event"
       THEN Done(p, OK, "Event retrieved successfully")
       ELSE Done(p, OK, "Event status updated successfully")
    /\ UNCHANGED <<attendees, now, attendee_email_unique, last, users, token>>

\* the response of request p has been sent
respond(p) ==
    /\ requests[p].pc = "done"
    /\ requests' = [requests EXCEPT ![p] = Idle]
    /\ UNCHANGED <<events, attendees, now, attendee_email_unique, last, users, token>>

(* ----------------------- users and authentication ---------------------- *)
\* A bearer token is what jwt.decode sees of it: whether its signature verifies
\* under SECRET_KEY, its "sub" claim (an email, 0: no such claim) and its "exp"
\* claim.  `token` is the Authorization header of the request being served.
NoToken == [signed |-> FALSE, sub |-> 0, exp |-> 0]

\* UserDAO.get_by_email (scalar_one_or_none): the user with this email, 0 for None
user_get_by_email(rows, email) ==
    IF \E i \in DOMAIN rows : rows[i].email = email
    THEN CHOOSE i \in DOMAIN rows : rows[i].email = email
    ELSE 0

\* BaseDAO.create on the users table
user_create(rows, email) == Append(rows, [email |-> email])

\* variant: the lookup of the existing user is by id, not by email
register_user_by_id(email) ==
    /\ IF get(users, email) # 0
       THEN /\ users' = users
            /\ last' = Response("register_user", BAD_REQUEST, "Email already registered",
                                0, email, <<>>, <<>>, <<>>)
       ELSE /\ users' = user_create(users, email)
            /\ last' = Response("register_user", CREATED, "User created successfully",
                                0, email, <<Len(users) + 1>>, <<>>, <<>>)
    /\ UNCHANGED <<events, attendees, now, attendee_email_unique, requests, token>>

\* UserService.register_user
register_user(email) ==
    /\ IF user_get_by_email(users, email) # 0
       THEN /\ users' = users
            /\ last' = Response("register_user", BAD_REQUEST, "Email already registered",
                                0, email, <<>>, <<>>, <<>>)
       ELSE /\ users' = user_create(users, email)
            /\ last' = Response("register_user", CREATED, "User created successfully",
                                0, email, <<Len(users) + 1>>, <<>>, <<>>)
    /\ UNCHANGED <<events, attendees, now, attendee_email_unique, requests, token>>

\* variant: the token is decoded without verifying its expiry
get_current_user_ignoring_exp(tok) ==
    IF ~tok.signed THEN 0
    ELSE IF tok.sub = 0 THEN 0
    ELSE user_get_by_email(users, tok.sub)

\* get_current_user: the id of the user the token resolves to, 0 when it raises
\* credentials_exception (jwt.decode raises JWTError on a bad signature and on
\* an "exp" before the current time)
get_current_user(tok) ==
    IF ~tok.signed \/ tok.exp < now THEN 0
    ELSE IF tok.sub = 0 THEN 0
    ELSE user_get_by_email(users, tok.sub)

\* a request with this Authorization header arrives
present(tok) ==
    /\ token' = tok
    /\ UNCHANGED <<events, attendees, now, attendee_email_unique, last, requests, users>>

\* the HTTPException of get_current_user
credentials_exception(op, event_id) ==
    /\ last' = Response(op, UNAUTHORIZED, "Could not validate credentials", event_id, 0,
                        <<>>, <<>>, <<>>)
    /\ UNCHANGED <<events, attendees, now, attendee_email_unique, requests, users, token>>

\* POST /events
endpoint_create_event(start_time, end_time, max_attendees) ==
    LET current_user == get_current_user(token)
    IN  IF current_user = 0 THEN credentials_exception("create_event", 0)
        ELSE create_event(start_time, end_time, max_attendees, current_user)

\* PUT /events/{event_id}
endpoint_update_event(event_id, event_in) ==
    LET current_user == get_current_user(token)
    IN  IF current_user = 0 THEN credentials_exception("update_event", event_id)
        ELSE update_event(event_id, event_in, current_user)

\* PATCH /events/{event_id}/status
endpoint_update_event_status(event_id, status) ==
    LET current_user == get_current_user(token)
    IN  IF current_user = 0 THEN credentials_exception("update_event_status", event_id)
        ELSE update_event_status(event_id, status, current_user)

(* ----------------------------- environment ----------------------------- *)
\* the wall clock read by datetime.now() advances (up to one past the last time)
Tick ==
    /\ now <= MaxTime
    /\ now' = now + 1
    /\ UNCHANGED <<events, attendees, attendee_email_unique, last, requests, users, token>>

(* ------------------------------- inputs -------------------------------- *)
Users == 1..MaxUser
Emails == 1..MaxEmail
Times == 0..MaxTime
Caps == 1..MaxCap
EventIds == 1..MaxEvents
AttendeeIds == 1..MaxRows

\* the bodies of PUT /events/{id}: nothing set, or one field set, or both times set
NoUpdate == [start_time |-> -1, end_time |-> -1, max_attendees |-> -1, status |-> ""]
CapacityUpdates == {[NoUpdate EXCEPT !.max_attendees = m] : m \in Caps}
StatusUpdates == {[NoUpdate EXCEPT !.status = s] : s \in EventStatus}
TimeUpdates ==
    {[NoUpdate EXCEPT !.start_time = t] : t \in Times}
    \cup {[NoUpdate EXCEPT !.end_time = t] : t \in Times}
    \cup {[NoUpdate EXCEPT !.start_time = t, !.end_time = u] : t \in Times, u \in Times}

\* the query strings of GET /events: <<skip, limit, status, start_date, end_date>>
EventQueries ==
    {<<p[1], p[2], s, r[1], r[2]>> :
        p \in {<<0, DefaultLimit>>, <<0, 1>>, <<1, 1>>},
        s \in {""} \cup EventStatus,
        r \in {<<-1, -1>>, <<0, MaxTime>>}}

\* the lists of a bulk check-in upload (the endpoint rejects an empty one)
RECURSIVE SeqsUpTo(_, _)
SeqsUpTo(S, n) ==
    IF n = 0 THEN {<<>>}
    ELSE LET shorter == SeqsUpTo(S, n - 1)
         IN  shorter \cup {Append(s, x) : s \in shorter, x \in S}
EmailLists == SeqsUpTo(Emails, MaxBulk) \ {<<>>}

(* --------------------------- specifications ---------------------------- *)
\* an empty database, created from the ORM metadata or by the migration
Init ==
    /\ events = <<>>
    /\ attendees = <<>>
    /\ now = 0
    /\ attendee_email_unique \in BOOLEAN
    /\ last = Response("init", 0, "", 0, 0, <<>>, <<>>, <<>>)
    /\ requests = [p \in Procs |-> Idle]
    /\ users = <<>>
    /\ token = NoToken

\* Spec: every operation, around the first event of the table
Next ==
    \/ \E m \in Caps, u \in Users :
          events = <<>> /\ create_event(0, MaxTime, m, u)
    \/ \E id \in EventIds, event_in \in {NoUpdate} \cup CapacityUpdates \cup StatusUpdates,
          u \in Users : update_event(id, event_in, u)
    \/ \E id \in EventIds : get_event(id)
    \/ \E q \in {<<0, DefaultLimit, "", -1, -1>>, <<0, DefaultLimit, ONGOING, -1, -1>>} :
          get_events(q[1], q[2], q[3], q[4], q[5])
    \/ \E id \in EventIds, s \in EventStatus, u \in Users : update_event_status(id, s, u)
    \/ \E email \in Emails, id \in EventIds :
          register_attendee(email, id) /\ Len(attendees') <= MaxRows
    \/ \E id \in AttendeeIds : check_in_attendee(id)
    \/ \E id \in EventIds, emails \in EmailLists : bulk_check_in_attendees(id, emails)
    \/ Tick

Spec == Init /\ [][Next]_vars

\* SpecEvents: the event lifecycle over several events
NextEvents ==
    \/ \E s \in Times, e \in Times :
          create_event(s, e, MaxCap, 1) /\ Len(events') <= MaxEvents
    \/ \E id \in EventIds, event_in \in {NoUpdate} \cup StatusUpdates \cup TimeUpdates,
          u \in Users : update_event(id, event_in, u)
    \/ \E id \in EventIds : get_event(id)
    \/ \E q \in EventQueries : get_events(q[1], q[2], q[3], q[4], q[5])
    \/ \E id \in EventIds, s \in EventStatus, u \in Users : update_event_status(id, s, u)
    \/ Tick

NextStatus ==
    \/ events = <<>> /\ create_event(0, MaxTime, MaxCap, 1)
    \/ \E p \in Procs, s \in EventStatus, u \in Users :
          update_event_status_begin(p, 1, s, u)
    \/ \E p \in Procs : update_event_status_get_event(p)
    \/ \E p \in Procs : get_event_begin(p, 1)
    \/ \E p \in Procs : get_event_get_event(p)
    \/ \E p \in Procs : update_status_write(p)
    \/ \E p \in Procs : respond(p)
    \/ Tick

SpecStatus == Init /\ [][NextStatus]_vars

NextBulk ==
    \/ events = <<>> /\ create_event(0, MaxTime, MaxCap, 1)
    \/ \E s \in EventStatus : update_event_status(1, s, 1)
    \/ \E email \in Emails : register_attendee(email, 1) /\ Len(attendees') <= MaxCap
    \/ \E id \in EventIds, csv \in BOOLEAN, emails \in SeqsUpTo(Emails, MaxBulk) :
          endpoint_bulk_check_in_attendees(id, csv, emails)

SpecBulk == Init /\ [][NextBulk]_vars

InitEvents == Init /\ ~attendee_email_unique

SpecEvents == InitEvents /\ [][NextEvents]_vars

NextClosing ==
    \/ events = <<>> /\ create_event(0, MaxTime, MaxCap, 1)
    \/ \E p \in Procs, s \in EventStatus : update_event_status_begin(p, 1, s, 1)
    \/ \E p \in Procs : update_event_status_get_event(p)
    \/ \E p \in Procs : get_event_begin(p, 1)
    \/ \E p \in Procs : get_event_get_event(p)
    \/ \E p \in Procs : update_status_write(p)
    \/ \E p \in Procs : register_begin(p, 1, 1)
    \/ \E p \in Procs : register_get_event(p)
    \/ \E p \in Procs : register_get_by_email_1(p)
    \/ \E p \in Procs : register_get_by_email_2(p)
    \/ \E p \in Procs : register_get_by_event(p)
    \/ \E p \in Procs : register_create(p) /\ Len(attendees') <= MaxRows
    \/ \E p \in Procs : check_in_begin(p, 1)
    \/ \E p \in Procs : check_in_get_attendee(p)
    \/ \E p \in Procs : check_in_get_event(p)
    \/ \E p \in Procs : check_in_write(p)
    \/ \E p \in Procs : respond(p)
    \/ Tick

SpecClosing == InitEvents /\ [][NextClosing]_vars

\* SpecRegistration: registrations over several events
NextRegistration ==
    \/ \E m \in Caps :
          create_event(0, MaxTime, m, 1) /\ Len(events') <= MaxEvents
    \/ \E id \in EventIds, s \in EventStatus : update_event_status(id, s, 1)
    \/ \E email \in Emails, id \in EventIds :
          register_attendee(email, id) /\ Len(attendees') <= MaxRows

SpecRegistration == Init /\ [][NextRegistration]_vars

\* SpecLarge: one event whose capacity exceeds the DAO's default page
LargeCap == DefaultLimit + 1
NextLarge ==
    \/ events = <<>> /\ create_event(0, MaxTime, LargeCap, 1)
    \/ update_event_status(1, ONGOING, 1)
    \/ register_attendee(Len(attendees) + 1, 1) /\ Len(attendees') <= LargeCap + 1
    \/ \E email \in {1, LargeCap} : bulk_check_in_attendees(1, <<email>>)

SpecLarge == Init /\ [][NextLarge]_vars

\* SpecConcurrent: requests of several workers around one event of capacity 1
NextConcurrent ==
    \/ events = <<>> /\ create_event(0, MaxTime, 1, 1)
    \/ update_event_status(1, ONGOING, 1)
    \/ \E p \in Procs, email \in Emails : register_begin(p, email, 1)
    \/ \E p \in Procs : register_get_event(p)
    \/ \E p \in Procs : register_get_by_email_1(p)
    \/ \E p \in Procs : register_get_by_email_2(p)
    \/ \E p \in Procs : register_get_by_event(p)
    \/ \E p \in Procs : register_create(p) /\ Len(attendees') <= MaxRows
    \/ \E p \in Procs, id \in AttendeeIds : check_in_begin(p, id)
    \/ \E p \in Procs : check_in_get_attendee(p)
    \/ \E p \in Procs : check_in_get_event(p)
    \/ \E p \in Procs : check_in_write(p)
    \/ \E p \in Procs : respond(p)

SpecConcurrent == Init /\ [][NextConcurrent]_vars

\* the bearer tokens a client can present
Tokens == [signed : BOOLEAN, sub : {0} \cup Emails, exp : Times]

\* SpecAuth: user registration and the authenticated event endpoints
NextAuth ==
    \/ \E email \in Emails : register_user(email)
    \/ \E tok \in Tokens : present(tok)
    \/ endpoint_create_event(0, MaxTime, MaxCap) /\ Len(events') <= 1
    \/ \E id \in EventIds, event_in \in CapacityUpdates : endpoint_update_event(id, event_in)
    \/ \E id \in EventIds, s \in EventStatus : endpoint_update_event_status(id, s)
    \/ Tick

SpecAuth == InitEvents /\ [][NextAuth]_vars

\* the pages of the attendee lists: <<skip, limit>>
AttendeePages == {<<0, 1>>, <<0, DefaultLimit>>, <<1, DefaultLimit>>}

\* SpecCheckIn: one event with any start time, its attendees, check-in and lists
NextCheckIn ==
    \/ \E s \in Times : events = <<>> /\ create_event(s, MaxTime + 1, MaxCap, 1)
    \/ \E s \in EventStatus : update_event_status(1, s, 1)
    \/ \E email \in Emails :
          register_attendee(email, 1) /\ Len(attendees') <= MaxCap
    \/ \E id \in 1..MaxCap : check_in_attendee(id)
    \/ \E id \in EventIds, c \in {-1, 1}, p \in AttendeePages :
          get_attendees(id, -1, c, p[1], p[2])
    \/ \E id \in EventIds, p \in AttendeePages :
          get_checked_in_attendees(id, p[1], p[2])
    \/ Tick

SpecCheckIn == InitEvents /\ [][NextCheckIn]_vars

(* ------------------------------- claims -------------------------------- *)
\* the transition table of the event state machine
TransitionTable ==
    {<<SCHEDULED, ONGOING>>, <<SCHEDULED, CANCELLED>>,
     <<ONGOING, COMPLETED>>, <<ONGOING, CANCELLED>>}

\* the step is a call of this operation (the steps of the clock, of an arriving
\* token and of the requests in progress leave `last` alone)
Called(op) ==
    now' = now /\ token' = token /\ requests' = requests /\ last'.op = op

\* C4: update_event_status called by the organizer succeeds exactly when (stored
\* status, new status) is in the transition table; on success the stored status
\* becomes the new status, otherwise the call returns 400 'Invalid status
\* transition' and the stored status is unchanged.
C4_UpdateStatusFollowsTable ==
    [][Called("update_event_status")
       => LET id == last'.event_id
              u == last'.arg
          IN  \A s \in EventStatus :
                (update_event_status(id, s, u) /\ id \in DOMAIN events
                 /\ events[id].organizer_id = u)
                => IF <<events[id].status, s>> \in TransitionTable
                   THEN last'.code = OK /\ events'[id].status = s
                   ELSE /\ last'.code = BAD_REQUEST
                        /\ last'.msg = "Invalid status transition"
                        /\ events'[id].status = events[id].status]_vars

\* C4 witness: the organizer has just moved an ONGOING event to COMPLETED
C4_Witness ==
    /\ last.op = "update_event_status"
    /\ last.code = OK
    /\ events[last.event_id].organizer_id = last.arg
    /\ events[last.event_id].status = COMPLETED

\* C5: once the stored status of an event is COMPLETED or CANCELLED, no operation
\* changes it again.
C5_TerminalStatusIsFinal ==
    [][\A id \in DOMAIN events :
        events[id].status \in {COMPLETED, CANCELLED}
        => events'[id].status = events[id].status]_vars

\* what a read that returns event id does to it
ReadCompletesOnce(id) ==
    /\ (events[id].end_time < now /\ events[id].status \in {SCHEDULED, ONGOING})
       => events'[id].status = COMPLETED /\ id \in SeqToSet(last'.writes)
    /\ events[id].status = COMPLETED
       => events'[id].status = COMPLETED /\ id \notin SeqToSet(last'.writes)

\* C6: a get_event or get_events that returns an event whose end_time is in the
\* past and whose stored status is SCHEDULED or ONGOING sets the status to
\* COMPLETED; a read of an event that is already COMPLETED writes no status and
\* leaves it COMPLETED.
C6_ReadAutoCompletesOnce ==
    [][(Called("get_event") \/ Called("get_events"))
       => \A k \in DOMAIN last'.data : ReadCompletesOnce(last'.data[k])]_vars

\* C6 witness: one get_events has just completed two events
C6_Witness ==
    /\ last.op = "get_events"
    /\ Len(last.writes) = 2
    /\ \A k \in DOMAIN last.writes : events[last.writes[k]].status = COMPLETED

\* C10: update_event and update_event_status for a missing event return 404, and
\* called with a requester that is not the event's organizer return 403; both
\* leave every stored event unchanged.
C10_OnlyOrganizerMutates ==
    [][(Called("update_event") \/ Called("update_event_status"))
       => IF last'.event_id \notin DOMAIN events
          THEN last'.code = NOT_FOUND /\ events' = events
          ELSE events[last'.event_id].organizer_id # last'.arg
               => last'.code = FORBIDDEN /\ events' = events]_vars

\* C10 witness: a status change by another user has just been refused
C10_Witness ==
    /\ last.op = "update_event_status"
    /\ last.code = FORBIDDEN
    /\ last.event_id \in DOMAIN events
    /\ events[last.event_id].organizer_id # last.arg

\* the attendee records of an event, and those that carry an email
RegisteredFor(event_id) == {a \in DOMAIN attendees : attendees[a].event_id = event_id}
RegisteredAs(email, event_id) ==
    {a \in RegisteredFor(event_id) : attendees[a].email = email}

\* C1: for an open event with max_attendees = N and an email not yet registered
\* for it, register_attendee succeeds while fewer than N attendees are registered
\* and, with exactly N registered, fails with 'Event has reached maximum
\* attendees' and creates no record.
C1_CapacityIsEnforced ==
    [][Called("register_attendee")
       => LET id == last'.event_id
              email == last'.arg
          IN  (/\ id \in DOMAIN events
               /\ events[id].status \in {SCHEDULED, ONGOING}
               /\ \A a \in DOMAIN attendees : attendees[a].email # email)
              => /\ Cardinality(RegisteredFor(id)) < events[id].max_attendees
                    => /\ last'.code = CREATED
                       /\ attendees' = attendee_create(attendees, email, id)
                 /\ Cardinality(RegisteredFor(id)) = events[id].max_attendees
                    => /\ last'.code = BAD_REQUEST
                       /\ last'.msg = "Event has reached maximum attendees"
                       /\ attendees' = attendees]_vars

\* C2: no two attendee records share the same (email, event_id).
C2_EmailEventPairIsUnique ==
    \A a, b \in DOMAIN attendees :
        (attendees[a].email = attendees[b].email
         /\ attendees[a].event_id = attendees[b].event_id) => a = b

\* C3: registering an email that is registered for another event, for an event
\* that exists, is open and below capacity and for which the email is not yet
\* registered, succeeds and adds one attendee record for that event.
C3_SameEmailOtherEvent ==
    [][Called("register_attendee")
       => LET id == last'.event_id
              email == last'.arg
          IN  (/\ id \in DOMAIN events
               /\ events[id].status \in {SCHEDULED, ONGOING}
               /\ Cardinality(RegisteredFor(id)) < events[id].max_attendees
               /\ RegisteredAs(email, id) = {}
               /\ \E other \in DOMAIN events : RegisteredAs(email, other) # {})
              => /\ last'.code = CREATED
                 /\ attendees' = attendee_create(attendees, email, id)]_vars

CheckInOps == {"check_in_attendee", "bulk_check_in_attendees"}

C9_BulkProcessesEveryEmail ==
    [][(/\ Called("bulk_check_in_attendees")
        /\ last'.event_id \in DOMAIN events
        /\ events[last'.event_id].status = ONGOING)
       => /\ last'.code = OK
          /\ Len(last'.data) + Len(last'.errors) = last'.arg
          /\ \A k \in DOMAIN last'.errors :
                LET e == last'.errors[k]
                    have == RegisteredAs(e.email, last'.event_id)
                IN  /\ e.error = "not found" => have = {}
                    /\ e.error = "already checked in"
                       => \E a \in have : attendees'[a].check_in_status
          /\ \A k \in DOMAIN last'.data :
                /\ last'.data[k] \in RegisteredFor(last'.event_id)
                /\ ~attendees[last'.data[k]].check_in_status
                /\ attendees'[last'.data[k]].check_in_status]_vars

\* the create_event step persists a SCHEDULED record owned by the caller
CreatedScheduledAndOwned ==
    Called("create_event")
    => /\ last'.code = CREATED
       /\ last'.event_id = Len(events) + 1
       /\ events' = Append(events, events'[last'.event_id])
       /\ events'[last'.event_id].status = SCHEDULED
       /\ events'[last'.event_id].organizer_id = last'.arg

\* the step is the get_event of the event the request before it created (the
\* record get_event serializes is the session's, so it shows the stored status)
ReadFollowsCreate ==
    /\ last.op = "create_event"
    /\ Called("get_event")
    /\ last'.event_id = last.event_id

\* C11 (as stated): create_event persists status SCHEDULED and the caller as
\* organizer, and the get_event that follows the create returns status SCHEDULED.
C11_CreateThenReadScheduled ==
    [][/\ CreatedScheduledAndOwned
       /\ ReadFollowsCreate
          => /\ last'.code = OK
             /\ events'[last'.event_id].status = SCHEDULED]_vars

\* C11 (amended): create_event persists status SCHEDULED and the caller as
\* organizer; the get_event that follows returns status SCHEDULED when the end
\* time of the event has not passed at the read, and COMPLETED when it has.
C11_CreateThenReadScheduledUnlessPast ==
    [][/\ CreatedScheduledAndOwned
       /\ ReadFollowsCreate
          => /\ last'.code = OK
             /\ events'[last'.event_id].status =
                    IF events[last'.event_id].end_time < now THEN COMPLETED
                    ELSE SCHEDULED]_vars

\* C11 witness: an event that has not ended was read and is SCHEDULED, owned by
\* the second user
C11_Witness ==
    /\ last.op = "get_event"
    /\ last.code = OK
    /\ last.writes = <<>>
    /\ events[last.event_id].status = SCHEDULED
    /\ events[last.event_id].end_time >= now
    /\ events[last.event_id].organizer_id = MaxUser
    /\ attendees = <<>>

\* C12: create_event and update_event reject a time range that is not
\* start_time < end_time, so every stored event satisfies start_time < end_time.
C12_StartBeforeEnd ==
    \A id \in DOMAIN events : events[id].start_time < events[id].end_time

\* the first check that fails when the checks are made in the order event
\* existence, duplicate, event closed, event full ("" when none fails)
FirstFailingCheck(email, event_id) ==
    IF event_id \notin DOMAIN events THEN "Event not found"
    ELSE IF RegisteredAs(email, event_id) # {}
         THEN "Attendee already registered for this event"
    ELSE IF events[event_id].status \in {COMPLETED, CANCELLED}
         THEN "Event is not open for registration"
    ELSE IF Cardinality(RegisteredFor(event_id)) >= events[event_id].max_attendees
         THEN "Event has reached maximum attendees"
    ELSE ""

\* C13: register_attendee evaluates its checks in the order event existence,
\* duplicate, event closed, event full, reports the first one that fails (a
\* duplicate for a closed or full event is reported as a duplicate), and on any
\* failure creates no attendee record.
C13_RegisterCheckOrder ==
    [][Called("register_attendee")
       => LET expected == FirstFailingCheck(last'.arg, last'.event_id)
          IN  /\ expected # "" => last'.msg = expected
              /\ last'.code # CREATED => attendees' = attendees]_vars

\* C14: under every interleaving of concurrent register_attendee requests for the
\* same event, the number of attendee records of the event never exceeds its
\* max_attendees.
C14_CapacityUnderConcurrency ==
    \A id \in DOMAIN events :
        Cardinality(RegisteredFor(id)) <= events[id].max_attendees

\* C15: under every interleaving of concurrent register_attendee requests with the
\* same (email, event_id), at most one attendee record for the pair is created:
\* the requests that created a record for the same pair are one request.
C15_OneRecordPerPairUnderConcurrency ==
    /\ \A id \in DOMAIN events, email \in Emails :
          Cardinality(RegisteredAs(email, id)) <= 1
    /\ \A p, q \in Procs :
          (/\ requests[p].op = "register_attendee" /\ requests[p].code = CREATED
           /\ requests[q].op = "register_attendee" /\ requests[q].code = CREATED
           /\ requests[p].email = requests[q].email
           /\ requests[p].event_id = requests[q].event_id) => p = q

\* C16: under every interleaving of concurrent check-ins of the same attendee, at
\* most one of them reports the attendee as successfully checked in.
C16_OneCheckInSucceeds ==
    \A p, q \in Procs :
        (/\ requests[p].op = "check_in_attendee" /\ requests[p].code = OK
         /\ requests[q].op = "check_in_attendee" /\ requests[q].code = OK
         /\ requests[p].attendee_id = requests[q].attendee_id) => p = q

\* the token has a valid signature, a subject claim, an expiry that has not passed
\* and a stored user matching the claim
TokenResolves(tok) ==
    /\ tok.signed
    /\ tok.sub # 0
    /\ ~(tok.exp < now)
    /\ \E i \in DOMAIN users : users[i].email = tok.sub

AuthenticatedOps == {"create_event", "update_event", "update_event_status"}

\* C17: an event create, update or status change whose token has an invalid
\* signature, no subject claim, a passed expiry or no matching user fails with 401
\* 'Could not validate credentials' and changes no stored event; with any other
\* token the operation runs as the user the claim names.
C17_TokenResolvedBeforeOperation ==
    [][(\E op \in AuthenticatedOps : Called(op))
       => IF TokenResolves(token)
          THEN /\ last'.code # UNAUTHORIZED
               /\ last'.arg \in DOMAIN users
               /\ users[last'.arg].email = token.sub
          ELSE /\ last'.code = UNAUTHORIZED
               /\ last'.msg = "Could not validate credentials"
               /\ events' = events]_vars

\* C17 witness: a request for an existing event was refused whose token is that of
\* the organizer and fails on its expiry alone
C17_Witness ==
    /\ last.op \in {"update_event", "update_event_status"}
    /\ last.code = UNAUTHORIZED
    /\ last.event_id \in DOMAIN events
    /\ token.signed
    /\ token.exp < now
    /\ \E i \in DOMAIN users :
          users[i].email = token.sub /\ events[last.event_id].organizer_id = i

\* C18: register_user with an email of a stored user fails with 400 'Email already
\* registered' and creates no user, any other email is stored, and no two stored
\* users share an email.
C18_UserEmailsUnique ==
    [][Called("register_user")
       => /\ IF \E i \in DOMAIN users : users[i].email = last'.arg
             THEN /\ last'.code = BAD_REQUEST
                  /\ last'.msg = "Email already registered"
                  /\ users' = users
             ELSE /\ last'.code = CREATED
                  /\ users' = Append(users, [email |-> last'.arg])
          /\ \A i, j \in DOMAIN users' : users'[i].email = users'[j].email => i = j]_vars

\* C18 witness: the registration of the email of the second of two users was refused
C18_Witness ==
    /\ last.op = "register_user"
    /\ last.code = BAD_REQUEST
    /\ Len(users) = 2
    /\ users[2].email = last.arg

\* C19: check_in_attendee rejects with 400 'Event is not ongoing' the check-in of
\* an attendee whose event starts after the current time, whatever the stored
\* status, and no attendee is checked in before the start time of the event.
C19_NoCheckInBeforeStart ==
    [][/\ \A a \in DOMAIN attendees :
            (~attendees[a].check_in_status /\ attendees'[a].check_in_status)
            => events[attendees[a].event_id].start_time <= now
       /\ (/\ Called("check_in_attendee")
           /\ last'.arg \in DOMAIN attendees
           /\ events[attendees[last'.arg].event_id].start_time > now)
          => /\ last'.code = BAD_REQUEST
             /\ last'.msg = "Event is not ongoing"
             /\ attendees' = attendees]_vars

\* C20: get_checked_in_attendees(event_id, skip, limit) and get_attendees(event_id,
\* check_in_status = true, skip, limit) have the same outcome in every state: the
\* same attendees for an existing event, not found for a missing one.
C20_CheckedInListEquivalence ==
    \A event_id \in EventIds, p \in AttendeePages :
        LET checked_in == get_checked_in_attendees_result(event_id, p[1], p[2])
            filtered == get_attendees_result(event_id, -1, 1, p[1], p[2])
        IN  /\ checked_in.code = filtered.code
            /\ checked_in.data = filtered.data

\* C21: the record get_event returns, and every record get_events returns, carries
\* the status stored after the call, and for an event whose end_time has passed
\* and that was SCHEDULED or ONGOING that status is COMPLETED.
C21_ReadReturnsCompleted ==
    [][(Called("get_event") \/ Called("get_events"))
       => \A k \in DOMAIN last'.data :
            LET id == last'.data[k]
            IN  /\ last'.statuses[k] = events'[id].status
                /\ (events[id].end_time < now /\ events[id].status \in {SCHEDULED, ONGOING})
                   => last'.statuses[k] = COMPLETED]_vars

\* C21 witness: a list read has just completed its second event and returns it
C21_Witness ==
    /\ last.op = "get_events"
    /\ Len(last.data) = 2
    /\ last.writes = <<2>>
    /\ last.statuses[2] = COMPLETED

\* C22 as stated: get_event and get_events leave the stored status of an event
\* unchanged when its end_time has not passed or its status is COMPLETED or
\* CANCELLED, and they change no field other than status and no attendee record.
C22_ReadChangesOnlyStatus ==
    [][(Called("get_event") \/ Called("get_events"))
       => /\ attendees' = attendees
          /\ DOMAIN events' = DOMAIN events
          /\ \A id \in DOMAIN events :
                /\ [events'[id] EXCEPT !.status = events[id].status] = events[id]
                /\ (events[id].end_time >= now \/ events[id].status \in {COMPLETED, CANCELLED})
                   => events'[id].status = events[id].status]_vars

\* C22: get_event and get_events leave an event's record unchanged when its
\* end_time has not passed or its status is COMPLETED or CANCELLED; on the event
\* they complete they change only status and updated_at; they change no attendee
\* record and no user.
C22_ReadChangesOnlyStatusAndStamp ==
    [][(Called("get_event") \/ Called("get_events"))
       => /\ attendees' = attendees
          /\ users' = users
          /\ DOMAIN events' = DOMAIN events
          /\ \A id \in DOMAIN events :
                /\ [events'[id] EXCEPT !.status = events[id].status,
                                       !.updated_at = events[id].updated_at] = events[id]
                /\ (events[id].end_time >= now \/ events[id].status \in {COMPLETED, CANCELLED})
                   => events'[id] = events[id]]_vars

\* C22 witness: a cancelled event with an attendee was read after its end
C22_Witness ==
    /\ last.op = "get_event"
    /\ last.code = OK
    /\ events[last.event_id].status = CANCELLED
    /\ events[last.event_id].end_time < now
    /\ attendees # <<>>

\* the emails a bulk check-in was given, read off its result: every email ends
\* either among the returned attendees or among the per-email errors
BulkEmails ==
    {attendees[last'.data[k]].email : k \in DOMAIN last'.data}
    \cup {last'.errors[k].email : k \in DOMAIN last'.errors}

\* C23: a completed bulk check-in reports an email 'not found' only if no attendee
\* of the event carries it, and every attendee of the event whose email was listed
\* and who was not checked in is checked in afterwards, whatever the number of
\* attendees of the event.
C23_BulkLooksUpAllAttendees ==
    [][(Called("bulk_check_in_attendees") /\ last'.code = OK)
       => /\ \A k \in DOMAIN last'.errors :
                last'.errors[k].error = "not found"
                => RegisteredAs(last'.errors[k].email, last'.event_id) = {}
          /\ \A a \in RegisteredFor(last'.event_id) :
                (attendees[a].email \in BulkEmails /\ ~attendees[a].check_in_status)
                => attendees'[a].check_in_status]_vars

\* the outcome of a call that returned no result of its own: the storage
\* exception raised by the insert left the service function
Propagated(r) == r.code = INTERNAL_SERVER_ERROR /\ r.msg = "IntegrityError"

\* C24: no storage failure during a core operation leaves the operation as an
\* exception; the operation returns an error result of its own.
C24_StorageFailureIsReported ==
    last.op \in {"register_attendee", "check_in_attendee", "get_checked_in_attendees",
                 "bulk_check_in_attendees", "create_event", "update_event",
                 "update_event_status", "get_event", "get_events"}
    => ~Propagated(last)

\* C25: every event has at most max_attendees attendee records, in every state
\* reached by event creation and updates, status updates, reads and registrations.
C25_CountWithinCapacity ==
    \A id \in DOMAIN events :
        Len(SelectSeq(attendees, LAMBDA row : row.event_id = id)) <= events[id].max_attendees

\* C26: a get_events call with a status filter S returns only events whose status
\* in the response is S, and its events are those EventDAO.get_by_status selects,
\* whether or not a date range is given as well.
C26_StatusFilterIsHonoured ==
    [][Called("get_events")
       => \A q \in EventQueries :
            (q[3] # "" /\ get_events(q[1], q[2], q[3], q[4], q[5]))
            => /\ last'.data = get_by_status(q[3], q[1], q[2])
               /\ \A k \in DOMAIN last'.statuses : last'.statuses[k] = q[3]]_vars

\* C27: no registration and no check-in succeeds for an event whose end_time has
\* passed, whether or not the event has been read since.
C27_ClosedOnceEndTimePassed ==
    [][/\ (/\ Called("register_attendee")
           /\ last'.event_id \in DOMAIN events
           /\ events[last'.event_id].end_time < now)
          => last'.code # CREATED
       /\ (/\ Called("check_in_attendee")
           /\ last'.arg \in DOMAIN attendees
           /\ events[attendees[last'.arg].event_id].end_time < now)
          => last'.code # OK]_vars

\* C29: under every interleaving of concurrent update_event_status calls and
\* read-triggered auto-completions on one event, each change of the stored status
\* follows the transition table or completes a SCHEDULED or ONGOING event; a stored
\* COMPLETED is never replaced by CANCELLED nor a stored CANCELLED by COMPLETED.
C29_StatusChangesFollowTable ==
    [][\A id \in DOMAIN events :
          events'[id].status # events[id].status
          => \/ <<events[id].status, events'[id].status>> \in TransitionTable
             \/ /\ events[id].status \in {SCHEDULED, ONGOING}
                /\ events[id].end_time < now
                /\ events'[id].status = COMPLETED]_vars

\* C28: under every interleaving of a registration or a check-in with an
\* update_event_status or an auto-completion that closes the event, no attendee
\* record is created and no attendee is checked in while the stored status of the
\* event is COMPLETED or CANCELLED.
C28_NoWriteOnClosedEvent ==
    [][\A a \in DOMAIN attendees' :
          (a \notin DOMAIN attendees \/ attendees'[a] # attendees[a])
          => events[attendees'[a].event_id].status \notin {COMPLETED, CANCELLED}]_vars

\* C30: for a CSV upload the bulk check-in endpoint answers 400 when the file
\* holds no email, 404 when the event does not exist, 400 when the event is not
\* ONGOING, and otherwise not 500 unless processing the file fails unexpectedly.
C30_BulkEndpointStatusCodes ==
    [][(Called("bulk_check_in") /\ last'.msg # "Only CSV files are allowed")
       => IF last'.arg = 0 THEN last'.code = BAD_REQUEST
          ELSE IF last'.event_id \notin DOMAIN events THEN last'.code = NOT_FOUND
          ELSE IF events[last'.event_id].status # ONGOING THEN last'.code = BAD_REQUEST
          ELSE last'.code # INTERNAL_SERVER_ERROR]_vars

====
